---- MODULE Spec2Model ----
(***************************************************************************)
(* Model of src/src/index.js of code-quality-linter: the rule list         *)
(* LINT_RULES, getExtension, lintFile, calculateComplexity and the action   *)
(* of the `lint` command.                                                   *)
(*                                                                          *)
(* Strings are sequences of one-character strings.  Regular expressions    *)
(* are syntax trees evaluated by a backtracking matcher with the priority  *)
(* order of ECMAScript (greedy quantifiers, left-to-right alternatives).    *)
(***************************************************************************)
EXTENDS Integers, Sequences, FiniteSets, TLC

VARIABLES
    cmd,         \* which entry point runs: "lint", "lintFile" or "complexity"
    ruleSet,     \* which rule list lintFile iterates over
    fsBroken,    \* the file-system entries whose statSync/readFileSync throws
    paths,       \* lint: the <paths...> argument
    recursive,   \* lint: options.recursive
    output,      \* lint: options.output ("" when not given)
    p,           \* lint: index of the path the for-loop is at (1-based)
    stack,       \* lint: the lintDir call stack, each frame <<dir, items, k>>
    allIssues,   \* lint: allIssues
    filesLinted, \* lint: filesLinted
    bySeverity,  \* lint: bySeverity
    outFile,     \* the issue list written by writeFileSync (<<"none">> before)
    exitCode,    \* process exit code (-1 while running)
    filePath,    \* lintFile: filePath
    content,     \* lintFile / calculateComplexity: content
    ext,         \* lintFile: ext
    lines,       \* lintFile / calculateComplexity: lines
    i,           \* lintFile / calculateComplexity: zero-based line index
    ri,          \* lintFile: position in the rule list (1-based)
    lastIndex,   \* lintFile: regex.lastIndex
    issues,      \* lintFile: issues
    complexity,  \* calculateComplexity: complexity
    pc           \* control position

vars == <<cmd, ruleSet, fsBroken, paths, recursive, output, p, stack, allIssues,
          filesLinted, bySeverity, outFile, exitCode, filePath, content, ext,
          lines, i, ri, lastIndex, issues, complexity, pc>>

lintVars == <<paths, recursive, output, p, stack, allIssues, filesLinted,
              bySeverity, outFile, exitCode, fsBroken>>

scanVars == <<filePath, content, ext, lines, i, ri, lastIndex, issues>>

-----------------------------------------------------------------------------
(* Characters and strings *)

UpperLetters == <<"A","B","C","D","E","F","G","H","I","J","K","L","M",
                  "N","O","P","Q","R","S","T","U","V","W","X","Y","Z">>

LowerLetters == <<"a","b","c","d","e","f","g","h","i","j","k","l","m",
                  "n","o","p","q","r","s","t","u","v","w","x","y","z">>

Digits == {"0","1","2","3","4","5","6","7","8","9"}

Range(s) == {s[k] : k \in DOMAIN s}

\* \w
WordChars == Range(UpperLetters) \cup Range(LowerLetters) \cup Digits \cup {"_"}

\* \s (the members a text of the model can hold)
SpaceChars == {" ", "\t", "\n", "\r"}

\* the line terminators: `.` matches none of them, `$` with the m flag
\* matches before each of them
LineTerminators == {"\n", "\r"}

Punctuation == {".", "(", ")", "=", ":", "*", "/", ";", "+", "-", "$"}

Chars == WordChars \cup SpaceChars \cup Punctuation

ToLowerChar(c) ==
    IF \E k \in DOMAIN UpperLetters : UpperLetters[k] = c
    THEN LowerLetters[CHOOSE k \in DOMAIN UpperLetters : UpperLetters[k] = c]
    ELSE c

\* String.prototype.toLowerCase
ToLowerCase(s) == [k \in DOMAIN s |-> ToLowerChar(s[k])]

\* String.prototype.split with a one-character separator: the pieces
\* between consecutive separators (one piece when there is none)
Split(s, sep) ==
    LET at == {k \in DOMAIN s : s[k] = sep}
        nth(m) == IF m = 0 THEN 0
                  ELSE IF m > Cardinality(at) THEN Len(s) + 1
                  ELSE CHOOSE k \in at : Cardinality({q \in at : q <= k}) = m
    IN  [m \in 1..(Cardinality(at) + 1) |-> SubSeq(s, nth(m - 1) + 1, nth(m) - 1)]

RECURSIVE Concat(_)
Concat(ss) == IF ss = <<>> THEN <<>> ELSE Head(ss) \o Concat(Tail(ss))

-----------------------------------------------------------------------------
(* Regular expressions *)

Chr(S) == [t |-> "chr", set |-> S]
WordB == [t |-> "wb"]
Eol == [t |-> "eol"]
Cat(ns) == [t |-> "cat", ns |-> ns]
Alt(ns) == [t |-> "alt", ns |-> ns]
Rep(S, min) == [t |-> "rep", set |-> S, min |-> min]
NotAhead(n) == [t |-> "nla", n |-> n]
Lit(s) == Cat([k \in DOMAIN s |-> Chr({s[k]})])

IsWordAt(s, k) == k >= 1 /\ k <= Len(s) /\ s[k] \in WordChars

\* The length of the longest run of characters of S that starts at offset j
MaxRun(S, s, j) ==
    CHOOSE m \in 0..(Len(s) - j) :
        /\ \A q \in 1..m : s[j + q] \in S
        /\ (j + m < Len(s) => s[j + m + 1] \notin S)

\* greedy [S]{min,}: the longest run first, then one character less at a
\* time down to min characters
RepEnds(S, min, s, j) ==
    LET m == MaxRun(S, s, j)
    IN  IF m < min THEN <<>> ELSE [k \in 1..(m - min + 1) |-> j + m - (k - 1)]

RECURSIVE Ends(_, _, _)
RECURSIVE CatEnds(_, _, _, _)
RECURSIVE CatEndsAll(_, _, _, _)
RECURSIVE AltEnds(_, _, _, _)

\* The offsets at which a match of node n that starts at offset j of s can
\* end, in the order the backtracking matcher tries them.
Ends(n, s, j) ==
    CASE n.t = "chr" -> IF j < Len(s) /\ s[j + 1] \in n.set THEN <<j + 1>> ELSE <<>>
      [] n.t = "wb"  -> IF IsWordAt(s, j) # IsWordAt(s, j + 1) THEN <<j>> ELSE <<>>
      [] n.t = "eol" -> IF j = Len(s) \/ (j < Len(s) /\ s[j + 1] \in LineTerminators)
                        THEN <<j>> ELSE <<>>
      [] n.t = "cat" -> CatEnds(n.ns, 1, s, j)
      [] n.t = "alt" -> AltEnds(n.ns, 1, s, j)
      [] n.t = "rep" -> RepEnds(n.set, n.min, s, j)
      [] n.t = "nla" -> IF Ends(n.n, s, j) = <<>> THEN <<j>> ELSE <<>>

CatEnds(ns, k, s, j) ==
    IF k > Len(ns) THEN <<j>> ELSE CatEndsAll(ns, k + 1, s, Ends(ns[k], s, j))

CatEndsAll(ns, k, s, es) ==
    IF es = <<>> THEN <<>>
    ELSE CatEnds(ns, k, s, Head(es)) \o CatEndsAll(ns, k, s, Tail(es))

AltEnds(ns, k, s, j) ==
    IF k > Len(ns) THEN <<>> ELSE Ends(ns[k], s, j) \o AltEnds(ns, k + 1, s, j)

NoMatch == [index |-> -1, end |-> -1]

\* The leftmost match that starts at offset j or later
FirstMatch(n, s, j) ==
    LET starts == {k \in j..Len(s) : Ends(n, s, k) # <<>>}
    IN  IF starts = {} THEN NoMatch
        ELSE LET k == CHOOSE k \in starts : \A q \in starts : k <= q
             IN  [index |-> k, end |-> Head(Ends(n, s, k))]

\* RegExp.prototype.exec of a pattern with the g flag: the leftmost match
\* starting at or after lastIndex; the new lastIndex is the match's end.
Exec(pattern, s, last) == FirstMatch(pattern, s, last)

\* RegExp.prototype.test of a pattern without the g flag
Test(pattern, s) == FirstMatch(pattern, s, 0) # NoMatch

-----------------------------------------------------------------------------
(* The quality rules *)

JsLangs == {<<"j","s">>, <<"t","s">>, <<"j","s","x">>, <<"t","s","x">>}
PyLangs == {<<"p","y">>}

\* A rule without a `lang` property has hasLang = FALSE.
Rule(hasLang, lang, pattern, issue, severity) ==
    [hasLang |-> hasLang, lang |-> lang, pattern |-> pattern,
     issue |-> issue, severity |-> severity]

VarPattern == Cat(<<WordB, Lit(<<"v","a","r">>), Rep(SpaceChars, 1), Rep(WordChars, 1)>>)
ConsolePattern ==
    Cat(<<Lit(<<"c","o","n","s","o","l","e",".">>),
          Alt(<<Lit(<<"l","o","g">>), Lit(<<"d","e","b","u","g">>), Lit(<<"i","n","f","o">>)>>),
          Lit(<<"(">>)>>)
TodoPattern == Alt(<<Lit(<<"T","O","D","O">>), Lit(<<"F","I","X","M","E">>), Lit(<<"H","A","C","K",":">>)>>)
EqPattern == Cat(<<Lit(<<"=","=">>), NotAhead(Lit(<<"=">>))>>)
NewArrayPattern == Cat(<<Lit(<<"n","e","w">>), Rep(SpaceChars, 1), Lit(<<"A","r","r","a","y","(">>)>>)
ThrowPattern ==
    Cat(<<Lit(<<"t","h","r","o","w">>), Rep(SpaceChars, 1), Lit(<<"n","e","w">>), Rep(SpaceChars, 1), Lit(<<"E","r","r","o","r">>)>>)
ExceptPattern == Cat(<<Lit(<<"e","x","c","e","p","t">>), Rep(SpaceChars, 0), Lit(<<":">>)>>)
PrintPattern == Cat(<<Lit(<<"p","r","i","n","t">>), Rep(SpaceChars, 0), Lit(<<"(">>)>>)
ImportPattern ==
    Cat(<<Lit(<<"f","r","o","m">>), Rep(SpaceChars, 1), Rep(WordChars, 1), Rep(SpaceChars, 1),
          Lit(<<"i","m","p","o","r","t">>), Rep(SpaceChars, 1), Lit(<<"*">>)>>)
LineLimit == 120
LongLinePattern == Rep(Chars \ LineTerminators, LineLimit)
TrailingPattern == Cat(<<Rep(SpaceChars, 1), Eol>>)
TabPattern == Lit(<<"\t">>)

LINT_RULES == <<
    Rule(TRUE, JsLangs, VarPattern, "Use \"let\" or \"const\" instead of \"var\"", "warning"),
    Rule(TRUE, JsLangs, ConsolePattern, "Remove debug statements", "warning"),
    Rule(TRUE, JsLangs, TodoPattern, "TODO/FIXME comment found", "info"),
    Rule(TRUE, JsLangs, EqPattern, "Use === instead of ==", "warning"),
    Rule(TRUE, JsLangs, NewArrayPattern, "Use array literal []", "info"),
    Rule(TRUE, JsLangs, ThrowPattern, "Just \"throw Error\" is enough", "info"),
    Rule(TRUE, PyLangs, ExceptPattern, "Use \"except Exception:\"", "warning"),
    Rule(TRUE, PyLangs, PrintPattern, "Consider using logging", "info"),
    Rule(TRUE, PyLangs, ImportPattern, "Avoid wildcard imports", "warning"),
    Rule(FALSE, {}, LongLinePattern, "Line exceeds 120 characters", "info"),
    Rule(FALSE, {}, TrailingPattern, "Trailing whitespace", "info"),
    Rule(FALSE, {}, TabPattern, "Use spaces instead of tabs", "warning")
>>

\* getExtension(filePath): filePath.split('.').pop().toLowerCase()
getExtension(path) ==
    LET parts == Split(path, ".") IN ToLowerCase(parts[Len(parts)])

-----------------------------------------------------------------------------
(* lintFile(filePath, content), one step per loop iteration *)

MaxIssues == 12

\* Rule lists that exercise a pattern able to match the empty string:
\* LINT_RULES followed by one rule with the pattern /x*/g or /\b/g.
StarPattern == Rep({"x"}, 0)
BoundaryPattern == WordB
ProbeRule(pattern) == Rule(FALSE, {}, pattern, "probe", "info")

\* the rule list the for-of loop of lintFile iterates over
ActiveRules ==
    CASE ruleSet = "LINT_RULES" -> LINT_RULES
      [] ruleSet = "star"       -> LINT_RULES \o <<ProbeRule(StarPattern)>>
      [] ruleSet = "boundary"   -> LINT_RULES \o <<ProbeRule(BoundaryPattern)>>

\* Applicable without the language check
ApplicableAlways(rule, e) == TRUE

\* the negation of `rule.lang && !rule.lang.includes(ext)`
Applicable(rule, e) == ~(rule.hasLang /\ e \notin rule.lang)

\* Column reporting the zero-based offset
ColumnZeroBased(m) == m.index

\* column: match.index + 1
Column(m) == m.index + 1

\* lineNum = i + 1
LineNum(k) == k + 1

NewIssue(path, k, rule, m) ==
    [file |-> path, line |-> LineNum(k), issue |-> rule.issue,
     severity |-> rule.severity, column |-> Column(m)]

\* regex.lastIndex after a successful exec of a global pattern
LastIndexAfter(m) == m.end

InRuleLoop == pc = "scan" /\ i < Len(lines) /\ ri <= Len(ActiveRules)

CurMatch == Exec(ActiveRules[ri].pattern, lines[i + 1], lastIndex)

\* lines 49-51: ext, issues, lines
LintFileBegin ==
    /\ pc = "call"
    /\ ext' = getExtension(filePath)
    /\ issues' = <<>>
    /\ lines' = Split(content, "\n")
    /\ i' = 0
    /\ ri' = 1
    /\ lastIndex' = 0
    /\ pc' = "scan"
    /\ UNCHANGED <<cmd, ruleSet, lintVars, filePath, content, complexity>>

\* line 59: continue
SkipRule ==
    /\ InRuleLoop
    /\ ~Applicable(ActiveRules[ri], ext)
    /\ ri' = ri + 1
    /\ lastIndex' = 0
    /\ UNCHANGED <<cmd, ruleSet, lintVars, filePath, content, ext, lines, i,
                   issues, complexity, pc>>

\* lines 64-71: exec found a match, the issue is pushed
PushIssue ==
    /\ InRuleLoop
    /\ Applicable(ActiveRules[ri], ext)
    /\ CurMatch # NoMatch
    /\ Len(issues) < MaxIssues
    /\ issues' = Append(issues, NewIssue(filePath, i, ActiveRules[ri], CurMatch))
    /\ lastIndex' = LastIndexAfter(CurMatch)
    /\ UNCHANGED <<cmd, ruleSet, lintVars, filePath, content, ext, lines, i, ri,
                   complexity, pc>>

\* line 64: exec returned null, the while loop ends; the next rule gets a
\* fresh RegExp (line 63)
RuleDone ==
    /\ InRuleLoop
    /\ Applicable(ActiveRules[ri], ext)
    /\ CurMatch = NoMatch
    /\ ri' = ri + 1
    /\ lastIndex' = 0
    /\ UNCHANGED <<cmd, ruleSet, lintVars, filePath, content, ext, lines, i,
                   issues, complexity, pc>>

\* line 53: i++ after the last rule
NextLine ==
    /\ pc = "scan"
    /\ i < Len(lines)
    /\ ri > Len(ActiveRules)
    /\ i' = i + 1
    /\ ri' = 1
    /\ UNCHANGED <<cmd, ruleSet, lintVars, filePath, content, ext, lines,
                   lastIndex, issues, complexity, pc>>

\* line 76: return issues
LintFileReturn ==
    /\ pc = "scan"
    /\ i >= Len(lines)
    /\ pc' = "ret"
    /\ UNCHANGED <<cmd, ruleSet, lintVars, scanVars, complexity>>

NextScan ==
    \/ LintFileBegin
    \/ SkipRule
    \/ PushIssue
    \/ RuleDone
    \/ NextLine
    \/ LintFileReturn

-----------------------------------------------------------------------------
(* Inputs of lintFile *)

MaxTokens == 3

ScanNames == {
    <<"a",".","j","s">>, <<"b",".","P","Y">>, <<"j","s">>,
    <<".","t","s">>, <<"c",".","t","x","t">>, <<"M","a","k","e">> }

ScanTokens == {
    <<"v","a","r"," ","x">>, <<"=","=">>, <<"=">>, <<"p","r","i","n","t","(">>,
    <<"\t">>, <<" ">>, <<"\r">>, <<"\n">> }

TextsOver(tokens, n) ==
    UNION {{Concat(ts) : ts \in [1..m -> tokens]} : m \in 0..n}

ScanTexts == TextsOver(ScanTokens, MaxTokens)

NotWritten == <<"not written">>

\* the variables of the lint command, before it runs
LintIdle ==
    /\ fsBroken = {}
    /\ paths = <<>>
    /\ recursive = FALSE
    /\ output = <<>>
    /\ p = 1
    /\ stack = <<>>
    /\ allIssues = <<>>
    /\ filesLinted = 0
    /\ bySeverity = [error |-> 0, warning |-> 0, info |-> 0]
    /\ outFile = NotWritten
    /\ exitCode = -1

ScanIdle ==
    /\ ext = <<>>
    /\ lines = <<>>
    /\ i = 0
    /\ ri = 1
    /\ lastIndex = 0
    /\ issues = <<>>

\* a direct call lintFile(filePath, content)
InitScan ==
    /\ cmd = "lintFile"
    /\ ruleSet = "LINT_RULES"
    /\ LintIdle
    /\ ScanIdle
    /\ filePath \in ScanNames
    /\ content \in ScanTexts
    /\ complexity = 0
    /\ pc = "call"

SpecScan == InitScan /\ [][NextScan]_vars

MaxRuleTokens == 2

RuleTexts == TextsOver({<<"x">>, <<" ">>, <<"a","b">>, <<"\n">>}, MaxRuleTokens)

\* a direct call of lintFile while the rule list ends with a rule whose
\* pattern can match the empty string
InitRule ==
    /\ cmd = "lintFile"
    /\ ruleSet \in {"star", "boundary"}
    /\ LintIdle
    /\ ScanIdle
    /\ filePath \in {<<"a",".","j","s">>, <<"c",".","t","x","t">>}
    /\ content \in RuleTexts
    /\ complexity = 0
    /\ pc = "call"

SpecRule == InitRule /\ [][NextScan]_vars

\* a line of LineLimit + 1 characters, all "a" except the k-th, which is c
LongLine(c, k) == [q \in 1..(LineLimit + 1) |-> IF q = k THEN c ELSE "a"]

LongTexts ==
    {prefix \o LongLine(c, k) :
        prefix \in {<<>>, <<"x", "\n">>},
        c \in {"a", "=", " ", "\t", "\r"},
        k \in {1, 2, LineLimit \div 2, LineLimit, LineLimit + 1}}

\* a direct call of lintFile on a text with a line of LineLimit + 1 characters
InitLong ==
    /\ cmd = "lintFile"
    /\ ruleSet = "LINT_RULES"
    /\ LintIdle
    /\ ScanIdle
    /\ filePath \in {<<"a",".","j","s">>, <<"c",".","t","x","t">>}
    /\ content \in LongTexts
    /\ complexity = 0
    /\ pc = "call"

SpecLong == InitLong /\ [][NextScan]_vars

-----------------------------------------------------------------------------
(* calculateComplexity(content), one step per line *)

Keywords == <<
    <<"i","f">>, <<"f","o","r">>, <<"w","h","i","l","e">>,
    <<"s","w","i","t","c","h">>, <<"c","a","t","c","h">>, <<"c","a","s","e">> >>

\* /\bif\b|\bfor\b|\bwhile\b|\bswitch\b|\bcatch\b|\bcase\b/
KeywordPattern ==
    Alt([k \in DOMAIN Keywords |-> Cat(<<WordB, Lit(Keywords[k]), WordB>>)])

\* LineCost searching the keywords without word boundaries
LineCostSubstring(line) ==
    IF Test(Alt([k \in DOMAIN Keywords |-> Lit(Keywords[k])]), line) THEN 1 ELSE 0

\* lines 84-86: what one line adds to complexity
LineCost(line) == IF Test(KeywordPattern, line) THEN 1 ELSE 0

\* lines 80-81
ComplexityBegin ==
    /\ pc = "cx_call"
    /\ lines' = Split(content, "\n")
    /\ complexity' = 1
    /\ i' = 0
    /\ pc' = "cx_loop"
    /\ UNCHANGED <<cmd, ruleSet, lintVars, filePath, content, ext, ri, lastIndex, issues>>

\* lines 83-87: one iteration of the for-of loop
ComplexityLine ==
    /\ pc = "cx_loop"
    /\ i < Len(lines)
    /\ complexity' = complexity + LineCost(lines[i + 1])
    /\ i' = i + 1
    /\ UNCHANGED <<cmd, ruleSet, lintVars, filePath, content, ext, lines, ri,
                   lastIndex, issues, pc>>

\* line 89
ComplexityReturn ==
    /\ pc = "cx_loop"
    /\ i >= Len(lines)
    /\ pc' = "cx_ret"
    /\ UNCHANGED <<cmd, ruleSet, lintVars, scanVars, complexity>>

NextComplexity == ComplexityBegin \/ ComplexityLine \/ ComplexityReturn

MaxCxTokens == 4

CxTokens == {
    <<"i","f">>, <<"f","o","r">>, <<"w","h","i","l","e">>,
    <<"s","w","i","t","c","h">>, <<"c","a","t","c","h">>, <<"c","a","s","e">>,
    <<"x">>, <<" ">>, <<"\n">> }

CxTexts == TextsOver(CxTokens, MaxCxTokens)

\* a direct call calculateComplexity(content)
InitComplexity ==
    /\ cmd = "complexity"
    /\ ruleSet = "LINT_RULES"
    /\ LintIdle
    /\ ScanIdle
    /\ filePath = <<>>
    /\ content \in CxTexts
    /\ complexity = 0
    /\ pc = "cx_call"

SpecComplexity == InitComplexity /\ [][NextComplexity]_vars

-----------------------------------------------------------------------------
(* The file system the lint command walks *)

AJs == <<"a",".","j","s">>
Js == <<"j","s">>
D == <<"d">>

\* path.join(dir, item)
PathJoin(dir, item) == dir \o <<"/">> \o item

DBpy == PathJoin(D, <<"b",".","p","y">>)
DEdir == PathJoin(D, <<"e">>)
DCtxt == PathJoin(D, <<"c",".","t","x","t">>)
DEFts == PathJoin(DEdir, <<"f",".","t","s">>)

FsDirs == {D, DEdir}
FsFiles == {AJs, Js, DBpy, DCtxt, DEFts}

\* fs.readdirSync(dir)
ReadDir(dir) ==
    CASE dir = D  -> << <<"b",".","p","y">>, <<"e">>, <<"c",".","t","x","t">> >>
      [] dir = DEdir -> << <<"f",".","t","s">> >>

\* fs.readFileSync(path, 'utf-8') when it succeeds
FileContent(path) ==
    CASE path = AJs -> <<"v","a","r"," ","x","\n","\t","x","=","=","1">>
      [] path = Js  -> <<"p","r","i","n","t","("," ">>
      [] path = DBpy  -> <<"p","r","i","n","t","(","x",")">>
      [] path = DCtxt  -> <<"o","k">>
      [] path = DEFts -> <<"x","=","=","=","y","\t">>

\* stat.isDirectory(), stat.isFile()
IsDirectory(path) == path \in FsDirs
IsFile(path) == path \in FsFiles

\* the entries on which fs.statSync (op "stat") or fs.readFileSync (op
\* "read") throws: a vanished entry, a permission error
StatThrows(path) == <<path, "stat">> \in fsBroken
ReadThrows(path) == <<path, "read">> \in fsBroken

Faults == {<<AJs, "stat">>, <<AJs, "read">>, <<D, "stat">>, <<DBpy, "read">>,
           <<DEdir, "stat">>, <<DEFts, "stat">>}

-----------------------------------------------------------------------------
(* The action of the lint command, lines 100-177 *)

MaxPaths == 2

Top == stack[Len(stack)]

\* the entry the traversal is at: an input path, or an item of the
\* directory lintDir is listing
AtEntry ==
    /\ cmd = "lint"
    /\ pc = "walk"
    /\ IF stack = <<>> THEN p <= Len(paths) ELSE Top.k <= Len(ReadDir(Top.dir))

Entry == IF stack = <<>> THEN paths[p] ELSE PathJoin(Top.dir, ReadDir(Top.dir)[Top.k])

\* Descends ignoring the recursive flag
DescendsAlways(path) == IsDirectory(path)

\* line 112 for an input path, line 118 for an item of a directory
Descends(path) ==
    IF stack = <<>> THEN IsDirectory(path) /\ recursive ELSE IsDirectory(path)

\* the loop that holds the current entry moves to its next entry
Advance(st) ==
    IF st = <<>>
    THEN /\ p' = p + 1
         /\ stack' = st
    ELSE /\ p' = p
         /\ stack' = [st EXCEPT ![Len(st)].k = @ + 1]

\* the exception of statSync or readFileSync is caught nowhere: the promise
\* of the action rejects and the process ends with exit code 1
Crash ==
    /\ pc' = "crashed"
    /\ exitCode' = 1
    /\ UNCHANGED <<cmd, ruleSet, fsBroken, paths, recursive, output, p, stack,
                   allIssues, filesLinted, bySeverity, outFile, scanVars, complexity>>

\* lines 110, 117: statSync throws
StatFails ==
    /\ AtEntry
    /\ StatThrows(Entry)
    /\ Crash

\* lines 113, 119: lintDir(dir) is called
EnterDirectory ==
    /\ AtEntry
    /\ ~StatThrows(Entry)
    /\ Descends(Entry)
    /\ stack' = Append(stack, [dir |-> Entry, k |-> 1])
    /\ UNCHANGED <<cmd, ruleSet, fsBroken, paths, recursive, output, p, allIssues,
                   filesLinted, bySeverity, outFile, exitCode, scanVars, complexity, pc>>

\* lines 121, 130: readFileSync throws
ReadFails ==
    /\ AtEntry
    /\ ~StatThrows(Entry)
    /\ ~Descends(Entry)
    /\ IsFile(Entry)
    /\ ReadThrows(Entry)
    /\ Crash

\* lines 121-122, 130-131: the file is read and lintFile is called
ReadAndLint ==
    /\ AtEntry
    /\ ~StatThrows(Entry)
    /\ ~Descends(Entry)
    /\ IsFile(Entry)
    /\ ~ReadThrows(Entry)
    /\ filePath' = Entry
    /\ content' = FileContent(Entry)
    /\ pc' = "call"
    /\ UNCHANGED <<cmd, ruleSet, lintVars, ext, lines, i, ri, lastIndex, issues,
                   complexity>>

\* lines 112, 129: neither branch is taken
SkipEntry ==
    /\ AtEntry
    /\ ~StatThrows(Entry)
    /\ ~Descends(Entry)
    /\ ~IsFile(Entry)
    /\ Advance(stack)
    /\ UNCHANGED <<cmd, ruleSet, fsBroken, paths, recursive, output, allIssues,
                   filesLinted, bySeverity, outFile, exitCode, scanVars, complexity, pc>>

\* line 127: lintDir returns after the last item
LeaveDirectory ==
    /\ cmd = "lint"
    /\ pc = "walk"
    /\ stack # <<>>
    /\ Top.k > Len(ReadDir(Top.dir))
    /\ Advance(SubSeq(stack, 1, Len(stack) - 1))
    /\ UNCHANGED <<cmd, ruleSet, fsBroken, paths, recursive, output, allIssues,
                   filesLinted, bySeverity, outFile, exitCode, scanVars, complexity, pc>>

\* allIssues.push(...issues)
Merge(all, new) == all \o new

\* lines 123-124, 132-133: lintFile has returned
Collect ==
    /\ cmd = "lint"
    /\ pc = "ret"
    /\ allIssues' = Merge(allIssues, issues)
    /\ filesLinted' = filesLinted + 1
    /\ Advance(stack)
    /\ pc' = "walk"
    /\ UNCHANGED <<cmd, ruleSet, fsBroken, paths, recursive, output, bySeverity,
                   outFile, exitCode, scanVars, complexity>>

CountSeverity(all, sev) == Cardinality({q \in DOMAIN all : all[q].severity = sev})

\* lines 137-167: the issues are counted by severity and printed
Summarize ==
    /\ cmd = "lint"
    /\ pc = "walk"
    /\ stack = <<>>
    /\ p > Len(paths)
    /\ bySeverity' = [sev \in {"error", "warning", "info"} |-> CountSeverity(allIssues, sev)]
    /\ pc' = "output"
    /\ UNCHANGED <<cmd, ruleSet, fsBroken, paths, recursive, output, p, stack,
                   allIssues, filesLinted, outFile, exitCode, scanVars, complexity>>

\* Written taking the list of the last unit scanned
WrittenLastUnit(all) == issues

\* the issue list JSON.stringify(allIssues, null, 2) encodes
Written(all) == all

\* lines 169-172 with options.output set (the path is taken to be writable)
WriteOutput ==
    /\ pc = "output"
    /\ output # <<>>
    /\ outFile' = Written(allIssues)
    /\ pc' = "exit"
    /\ UNCHANGED <<cmd, ruleSet, fsBroken, paths, recursive, output, p, stack,
                   allIssues, filesLinted, bySeverity, exitCode, scanVars, complexity>>

\* line 169 with options.output not set
NoOutput ==
    /\ pc = "output"
    /\ output = <<>>
    /\ pc' = "exit"
    /\ UNCHANGED <<cmd, ruleSet, lintVars, scanVars, complexity>>

\* lines 174-176: process.exit(1) when an error was counted; otherwise the
\* action returns and the process ends with code 0
Exit ==
    /\ pc = "exit"
    /\ exitCode' = IF bySeverity.error > 0 THEN 1 ELSE 0
    /\ pc' = "done"
    /\ UNCHANGED <<cmd, ruleSet, fsBroken, paths, recursive, output, p, stack,
                   allIssues, filesLinted, bySeverity, outFile, scanVars, complexity>>

Next ==
    \/ StatFails
    \/ EnterDirectory
    \/ ReadFails
    \/ ReadAndLint
    \/ SkipEntry
    \/ LeaveDirectory
    \/ LintFileBegin
    \/ SkipRule
    \/ PushIssue
    \/ RuleDone
    \/ NextLine
    \/ LintFileReturn
    \/ Collect
    \/ Summarize
    \/ WriteOutput
    \/ NoOutput
    \/ Exit

Roots == {AJs, Js, D}

OutPath == <<"o","u","t",".","j","s","o","n">>

\* the lint command started on one to MaxPaths paths
Init ==
    /\ cmd = "lint"
    /\ ruleSet = "LINT_RULES"
    /\ fsBroken \in {{}} \cup {{f} : f \in Faults}
    /\ paths \in UNION {[1..n -> Roots] : n \in 1..MaxPaths}
    /\ recursive \in BOOLEAN
    /\ output \in {<<>>, OutPath}
    /\ p = 1
    /\ stack = <<>>
    /\ allIssues = <<>>
    /\ filesLinted = 0
    /\ bySeverity = [error |-> 0, warning |-> 0, info |-> 0]
    /\ outFile = NotWritten
    /\ exitCode = -1
    /\ ScanIdle
    /\ filePath = <<>>
    /\ content = <<>>
    /\ complexity = 0
    /\ pc = "walk"

Spec == Init /\ [][Next]_vars

-----------------------------------------------------------------------------
(* Properties of lintFile *)

TextLines == Split(content, "\n")

RuleOf(msg) == CHOOSE k \in DOMAIN ActiveRules : ActiveRules[k].issue = msg

InScope(rule, path) == ~rule.hasLang \/ getExtension(path) \in rule.lang

\* the start offsets of the non-overlapping occurrences of a pattern in a
\* line, left to right, each search resuming where the last match ended
RECURSIVE Occurrences(_, _, _)
Occurrences(pattern, line, from) ==
    LET m == FirstMatch(pattern, line, from)
    IN  IF m = NoMatch THEN <<>>
        ELSE <<m.index>>
             \o Occurrences(pattern, line, IF m.end > m.index THEN m.end ELSE m.end + 1)

ExpectedForRule(path, line, k, rule) ==
    LET occ == Occurrences(rule.pattern, line, 0)
    IN  [q \in DOMAIN occ |->
            [file |-> path, line |-> k, issue |-> rule.issue,
             severity |-> rule.severity, column |-> occ[q] + 1]]

ExpectedForLine(path, line, k) ==
    Concat([r \in DOMAIN ActiveRules |->
              IF InScope(ActiveRules[r], path)
              THEN ExpectedForRule(path, line, k, ActiveRules[r]) ELSE <<>>])

ExpectedIssues(path, text) ==
    LET ls == Split(text, "\n")
    IN  Concat([k \in DOMAIN ls |-> ExpectedForLine(path, ls[k], k)])

\* issue a comes before issue b in (line, rule position, column) order
Before(a, b) ==
    \/ a.line < b.line
    \/ a.line = b.line /\ RuleOf(a.issue) < RuleOf(b.issue)
    \/ a.line = b.line /\ RuleOf(a.issue) = RuleOf(b.issue) /\ a.column < b.column

\* C4: a rule whose language list lacks the unit's language identifier
\* contributes no issue (no issue carries its message), and every universal
\* rule is applied: each line it matches has an issue with its message.
C4_LanguageScope ==
    /\ \A q \in DOMAIN issues :
          LET rule == ActiveRules[RuleOf(issues[q].issue)]
          IN  rule.hasLang => getExtension(filePath) \in rule.lang
    /\ pc = "ret" =>
          \A k \in DOMAIN TextLines : \A r \in DOMAIN ActiveRules :
              (~ActiveRules[r].hasLang
                 /\ FirstMatch(ActiveRules[r].pattern, TextLines[k], 0) # NoMatch)
              => \E q \in DOMAIN issues :
                    issues[q].line = k /\ issues[q].issue = ActiveRules[r].issue

\* a finished scan of a unit on which an out-of-scope rule's pattern does
\* match some line, and a universal rule has produced an issue
C4_Witness ==
    /\ pc = "ret"
    /\ issues # <<>>
    /\ \E k \in DOMAIN TextLines : \E r \in DOMAIN ActiveRules :
          /\ ActiveRules[r].hasLang
          /\ getExtension(filePath) \notin ActiveRules[r].lang
          /\ FirstMatch(ActiveRules[r].pattern, TextLines[k], 0) # NoMatch

\* the source identifier has no extension: it holds no '.', or its only
\* '.' is its first character (a dot-file)
NoExtension(path) == \A k \in DOMAIN path : path[k] = "." => k = 1

\* C5: when the source identifier has no extension, lintFile produces
\* issues only from the universal rules.
C5_NoExtensionOnlyUniversal ==
    (pc = "ret" /\ NoExtension(filePath)) =>
        \A q \in DOMAIN issues : ~ActiveRules[RuleOf(issues[q].issue)].hasLang

\* C9: lintFile returns exactly the issues of the (line, applicable rule,
\* occurrence) triples, with line = 1-based line index and column = 1 + the
\* occurrence's zero-based offset, in ascending (line, rule position,
\* column) order; each rule's occurrences are those found on the line alone.
C9_IssuesExact ==
    pc = "ret" =>
        /\ issues = ExpectedIssues(filePath, content)
        /\ \A a, b \in DOMAIN issues : a < b => Before(issues[a], issues[b])

\* a finished scan with two rules matching the same line, one of them twice
C9_Witness ==
    /\ pc = "ret"
    /\ \E a, b, c \in DOMAIN issues :
          /\ a < b /\ b < c
          /\ issues[a].line = issues[c].line
          /\ issues[a].issue # issues[b].issue
          /\ issues[b].issue = issues[c].issue
          /\ issues[b].column < issues[c].column

\* no scan of the built-in rules is cut short by the bound on the issue list
ScanUnbounded ==
    (ruleSet = "LINT_RULES" /\ InRuleLoop /\ Applicable(ActiveRules[ri], ext)
       /\ CurMatch # NoMatch) => Len(issues) < MaxIssues

LongLineIssue == "Line exceeds 120 characters"

\* C6: a line of 121 characters has exactly one line-length issue, of
\* severity info, whatever its characters are.
C6_LongLineOneIssue ==
    pc = "ret" =>
        \A k \in DOMAIN TextLines :
            Len(TextLines[k]) = LineLimit + 1 =>
                /\ Cardinality({q \in DOMAIN issues :
                      issues[q].line = k /\ issues[q].issue = LongLineIssue}) = 1
                /\ \A q \in DOMAIN issues :
                      (issues[q].line = k /\ issues[q].issue = LongLineIssue)
                      => issues[q].severity = "info"

-----------------------------------------------------------------------------
(* Properties of calculateComplexity *)

\* keyword kw stands at position k of the line as a whole word
WholeWordAt(line, kw, k) ==
    /\ k + Len(kw) - 1 <= Len(line)
    /\ SubSeq(line, k, k + Len(kw) - 1) = kw
    /\ (k > 1 => line[k - 1] \notin WordChars)
    /\ (k + Len(kw) <= Len(line) => line[k + Len(kw)] \notin WordChars)

KeywordPlaces(line) ==
    {<<kw, k>> \in Range(Keywords) \X DOMAIN line : WholeWordAt(line, kw, k)}

\* C7: calculateComplexity returns 1 plus the number of lines that hold a
\* keyword as a whole word; the result is at least 1, and 1 for the empty text.
C7_Complexity ==
    pc = "cx_ret" =>
        /\ complexity =
              1 + Cardinality({k \in DOMAIN TextLines : KeywordPlaces(TextLines[k]) # {}})
        /\ complexity >= 1
        /\ (content = <<>> => complexity = 1)

\* a finished call on a text of two lines, one of them holding two
\* whole-word keywords, with the result 2
C7_Witness ==
    /\ pc = "cx_ret"
    /\ complexity = 2
    /\ Len(TextLines) = 2
    /\ \E k \in DOMAIN TextLines : Cardinality(KeywordPlaces(TextLines[k])) >= 2

-----------------------------------------------------------------------------
(* Properties of the lint command *)

\* the files a traversal that skips every failing entry reads, in order
RECURSIVE UnitsOf(_, _)
UnitsOf(path, top) ==
    IF StatThrows(path) THEN <<>>
    ELSE IF IsDirectory(path)
    THEN IF top /\ ~recursive THEN <<>>
         ELSE Concat([k \in DOMAIN ReadDir(path) |->
                        UnitsOf(PathJoin(path, ReadDir(path)[k]), FALSE)])
    ELSE IF ReadThrows(path) THEN <<>> ELSE <<path>>

AllUnits == Concat([k \in DOMAIN paths |-> UnitsOf(paths[k], TRUE)])

IssuesOfUnits(units) ==
    Concat([k \in DOMAIN units |-> ExpectedIssues(units[k], FileContent(units[k]))])

Ended == pc \in {"done", "crashed"}

\* C1: the process ends with a non-zero exit code exactly when the issues
\* collected hold at least one of severity error.
C1_ExitIffErrors ==
    Ended => ((exitCode # 0) <=> (CountSeverity(allIssues, "error") > 0))

\* C2: a failing stat or read does not abort the run: the entry is skipped,
\* every other entry is scanned, and filesLinted counts the units read.
C2_FailureSkipped ==
    Ended =>
        /\ pc = "done"
        /\ filesLinted = Len(AllUnits)
        /\ allIssues = IssuesOfUnits(AllUnits)

\* the input paths before position k that are regular files
FilesBefore(k) == SelectSeq(SubSeq(paths, 1, k - 1), IsFile)

\* C8: without the recursive flag a directory among the input paths adds no
\* unit and no issue and raises no error, and the run goes on to the other
\* paths; a run over directories alone reports 0 files and exits with 0.
\* (statSync is taken to succeed on the directory.)
C8_DirectoryNotRecursed ==
    ~recursive =>
        /\ stack = <<>>
        /\ (pc = "walk" => /\ filesLinted = Len(FilesBefore(p))
                           /\ allIssues = IssuesOfUnits(FilesBefore(p)))
        /\ (pc = "crashed" => ~IsDirectory(paths[p]) \/ StatThrows(paths[p]))
        /\ (Ended /\ \A k \in DOMAIN paths : IsDirectory(paths[k]) /\ ~StatThrows(paths[k]))
             => (pc = "done" /\ filesLinted = 0 /\ allIssues = <<>> /\ exitCode = 0)

\* a finished run without the flag over a directory followed by a file
C8_Witness ==
    /\ pc = "done"
    /\ ~recursive
    /\ Len(paths) = 2
    /\ IsDirectory(paths[1])
    /\ IsFile(paths[2])
    /\ filesLinted = 1
    /\ exitCode = 0

\* C10: once traversal has finished with an output path given, the file
\* holds the complete issue list, every issue of every scanned unit in
\* collection order, before the exit code is decided and after.
C10_OutputBeforeExit ==
    (output # <<>> /\ pc \in {"exit", "done"}) =>
        /\ outFile = allIssues
        /\ allIssues = IssuesOfUnits(AllUnits)
        /\ (pc = "exit" => exitCode = -1)

\* the exit code is about to be decided and the file holds the issues of
\* several units
C10_Witness ==
    /\ pc = "exit"
    /\ output # <<>>
    /\ filesLinted >= 2
    /\ Len(outFile) >= 3
    /\ outFile = allIssues

====
